---- MODULE Spec2Model ----
(***************************************************************************)
(* A model of the two scripts of IEOtools:                                 *)
(*   updatelandsat.py          (catalog synchronisation, downloads)        *)
(*   convertlibrarytotiles.py  (conversion of the library to tiles)        *)
(* Each part of the scripts is a small sequential machine with its own     *)
(* program counter; the specifications at the end of each part run one     *)
(* machine and leave the others idle.                                      *)
(***************************************************************************)
EXTENDS Integers, Sequences, FiniteSets, TLC

VARIABLES
    errorsfound,    \* updatelandsat.py: global errorsfound
    errlog,         \* the entries written by ieo.logerror: <<subject, message>>
    dlurl,          \* updatelandsat.py: global dlurl, <<>> while unbound
    jpgs,           \* the thumbnail addresses whose file is in jpgdir
    dpc,            \* dlthumb: position ("idle", "while", "returned", "raised")
    tries,          \* dlthumb: local tries
    downloaded,     \* dlthumb: local downloaded
    attempts,       \* dlthumb: number of passes through the loop body so far
    response,       \* dlthumb: the value returned ("unset" before the return)
    xmls,           \* dlxmls: parameter xmls, the file names
    pathrows,       \* updatelandsat.py: global pathrows, [bound, val]
    today,          \* updatelandsat.py: whether the global today is bound
    xpc,            \* dlxmls: position ("idle", "for", "while", "returned", "raised")
    xi,             \* dlxmls: index of the pair (x, p) of the for loop
    xtries,         \* dlxmls: local tries
    xdownloaded,    \* dlxmls: local downloaded
    xattempts,      \* dlxmls: per file, the calls of urlretrieve made for it
    xurlerrors,     \* dlxmls: per file, the calls that raised URLError
    xresponse,      \* dlxmls: the value returned ("unset" before the return)
    targs,          \* convertlibrarytotiles.py: args (the six directories,
                    \* skipqa, vrt, whether outdir is given)
    emptydirs,      \* the directories in which glob finds no file
    tpc,            \* convertlibrarytotiles.py: position ("start", "for_d",
                    \* "for_f", "done")
    di,             \* conversion loop: position of d in dirs, from 1
    flist,          \* conversion loop: flist
    toutdir,        \* conversion loop: outdir
    fi,             \* conversion loop: position of f in flist, from 1
    calls,          \* the calls of ieo.converttotiles made so far
    pc,             \* updatelandsat.py: position in the module's statements
    pathrowstrs,    \* updatelandsat.py: pathrowstrs
    layer,          \* the features of the catalog layer, in FID order
    layer0,         \* the features of the catalog layer when the script starts
    reading,        \* the FID of the feature layer.GetNextFeature returned last
    feature,        \* updatelandsat.py: global feature, [kind, fid]
    scenelist,      \* updatelandsat.py: scenelist
    updatemissing,  \* updatelandsat.py: updatemissing
    badgeom,        \* updatelandsat.py: badgeom
    reimport,       \* updatelandsat.py: reimport
    lastupdate,     \* updatelandsat.py: lastupdate, 0 for None
    lastmodifiedDate, \* updatelandsat.py: lastmodifiedDate, 0 for None
    window,         \* scenesearch: the search windows queried so far
    returned,       \* scenesearch: the scene IDs the search requests returned
    querylist,      \* scenesearch: querylist of the last window
    scenedict,      \* scenesearch: scenedict, its entries in insertion order
    dictchanged,    \* whether findlocalfiles has added a key to scenedict
    filenum,        \* per-scene loop: filenum
    txn,            \* whether a transaction of the catalog layer is open
    cpc,            \* metadata requests of a window: position ("idle", "for",
                    \* "done")
    iteration,      \* scenesearch: iteration of the loop of line 218
    total,          \* scenesearch: total
    requests,       \* the entityIds lists of the metadata requests sent
    wpc,            \* search windows: position ("idle", "dataset", "while",
                    \* "returned")
    wargs,          \* args.startdate, args.enddate and what scenesearch is
                    \* given: lastmodifiedDate (0 for None) and whether
                    \* updatemissing and badgeom hold scenes
    datasetName,    \* scenesearch: position in datasetNames.keys(), from 1
    datetuple,      \* scenesearch: datetuple, as a day number
    enddatetuple,   \* scenesearch: enddatetuple, as a day number
    searches,       \* the search requests sent: [datasetName, startDate, endDate]
    spc,            \* updatelandsat.py lines 94-715: position ("idle",
                    \* "pathrows", "mbr", "open", "migrate", "main",
                    \* "exited", "crashed")
    useWRS2,        \* whether config useWRS2 is yes
    wrs2,           \* the features of the WRS-2 layer: <<PATH, ROW>>
    pathrowvals,    \* config pathrowvals after split(','), as integers
    gi,             \* path/row enumeration: i of the loop of line 113
    paths,          \* updatelandsat.py: paths
    rows,           \* updatelandsat.py: rows
    MBR,            \* args.MBR: <<"None">>, <<"str", parts>> or a list
    events,         \* what the script has done outside itself, in order
    cargs,          \* whether the catalog layer is in the geopackage, the
                    \* value of args.migrate, and whether the legacy
                    \* shapefile exists
    layerref,       \* what the global layer names before line 727:
                    \* "unbound", "wrs2" or "catalog"
    migrated,       \* the layers migrate was called with, in order
    mpc,            \* migrate: position ("idle", "returned", "raised")
    shplayer        \* migrate: the features of the legacy shapefile

thumbVars == <<dlurl, jpgs, dpc, tries, downloaded, attempts, response>>
logVars == <<errorsfound, errlog>>
xmlVars == <<xmls, pathrows, today, xpc, xi, xtries, xdownloaded, xattempts,
             xurlerrors, xresponse>>
tileVars == <<targs, emptydirs, tpc, di, flist, toutdir, fi, calls>>
validVars == <<scenelist, updatemissing, badgeom, reimport, lastupdate,
               lastmodifiedDate>>
searchVars == <<window, returned, querylist, scenedict>>
mainVars == <<pc, pathrowstrs, layer, layer0, reading, feature, scenelist,
              updatemissing, badgeom, reimport, lastupdate, lastmodifiedDate,
              window, returned, querylist, scenedict, dictchanged, filenum,
              txn>>
chunkVars == <<cpc, iteration, total, requests>>
windowVars == <<wpc, wargs, datasetName, datetuple, enddatetuple, searches>>
startVars == <<spc, useWRS2, wrs2, pathrowvals, gi, paths, rows, MBR, events,
               cargs, layerref, migrated>>
migrateVars == <<mpc, shplayer>>
auxVars == <<chunkVars, windowVars, startVars, migrateVars>>
vars == <<errorsfound, errlog, dlurl, jpgs, dpc, tries, downloaded, attempts, response,
          xmls, pathrows, today, xpc, xi, xtries, xdownloaded, xattempts,
          xurlerrors, xresponse,
          targs, emptydirs, tpc, di, flist, toutdir, fi, calls,
          pc, pathrowstrs, layer, layer0, reading, feature, scenelist,
          updatemissing, badgeom, reimport, lastupdate, lastmodifiedDate,
          window, returned, querylist, scenedict, dictchanged, filenum, txn,
          cpc, iteration, total, requests,
          wpc, wargs, datasetName, datetuple, enddatetuple, searches,
          spc, useWRS2, wrs2, pathrowvals, gi, paths, rows, MBR, events,
          cargs, layerref, migrated,
          mpc, shplayer>>

\* The longest run of loop passes of one download call that is followed.
MaxAttempts == 6

\* The largest number of XML files handed to one call of dlxmls.
MaxXmls == 2

\* The number of files glob finds in the directories that hold several.
MaxFiles == 2

\* The largest number of features of the catalog layer when the script starts.
MaxFeatures == 3

\* The largest number of features of the catalog layer in the runs that are
\* followed through the per-scene loop.
MaxLoopFeatures == 2

\* The largest number of search windows of one call of scenesearch.
MaxWindows == 1

\* The thumbnail addresses used when dlthumb is run on its own.
ThumbUrls == {<<"LC8", "207023", 1>>, <<"LE7", "207023", 2>>}

NoUrl == <<>>

(***************************************************************************)
(* dlthumb                                                                 *)
(***************************************************************************)

\* tries < 6 of the while condition
RetryLimit == 6

\* while not downloaded and tries < 6
DlthumbContinue(dl, t) == ~dl /\ t < RetryLimit

\* What one pass of the loop body does to tries, by the outcome of the pass:
\* only a download of the wrong size counts as a try.
DlthumbTriesAfter(outcome, t) == IF outcome = "short" THEN t + 1 ELSE t

\* The outcomes of one pass: the sizes agree, the sizes differ, urlopen or
\* urlretrieve raises URLError, or they raise an exception of another class.
DlthumbOutcomes == {"ok", "short", "URLError", "other"}

\* lines 471-473: the locals at entry
DlthumbBegin ==
    /\ tries' = 1
    /\ downloaded' = FALSE
    /\ attempts' = 0
    /\ response' = "unset"
    /\ dpc' = "while"

\* lines 474-487: one pass through the loop body
DlthumbAttempt ==
    /\ dpc = "while"
    /\ DlthumbContinue(downloaded, tries)
    /\ attempts < MaxAttempts
    /\ \E outcome \in DlthumbOutcomes :
        /\ attempts' = attempts + 1
        /\ tries' = DlthumbTriesAfter(outcome, tries)
        /\ downloaded' = (outcome = "ok")
        /\ IF outcome = "URLError"
             THEN /\ errlog' = errlog \cup {<<"url", dlurl, "URLError">>}
                  /\ errorsfound' = TRUE
             ELSE UNCHANGED <<errlog, errorsfound>>
        /\ jpgs' = IF outcome \in {"ok", "short"} THEN jpgs \cup {dlurl} ELSE jpgs
        /\ dpc' = IF outcome = "other" THEN "raised" ELSE "while"
    /\ UNCHANGED <<dlurl, response>>

\* lines 488-493: after the loop
DlthumbExit ==
    /\ dpc = "while"
    /\ ~DlthumbContinue(downloaded, tries)
    /\ IF tries = RetryLimit
         THEN /\ errlog' = errlog \cup {<<"jpg", dlurl, "Download error.">>}
              /\ errorsfound' = TRUE
              /\ response' = "None"
         ELSE /\ response' = "Success!"
              /\ UNCHANGED <<errlog, errorsfound>>
    /\ dpc' = "returned"
    /\ UNCHANGED <<dlurl, jpgs, tries, downloaded, attempts>>

\* A call of dlthumb(dlurl, jpgdir) on its own, with dlurl bound.
DlthumbCall ==
    /\ dpc = "idle"
    /\ dlurl # NoUrl
    /\ DlthumbBegin
    /\ UNCHANGED <<dlurl, jpgs, errlog, errorsfound>>

\* dlthumb before any call
ThumbIdle ==
    /\ dpc = "idle"
    /\ tries = 0
    /\ downloaded = FALSE
    /\ attempts = 0
    /\ response = "unset"

\* dlxmls before any call
XmlIdle ==
    /\ xmls = <<>>
    /\ pathrows = [bound |-> FALSE, val |-> <<>>]
    /\ today = FALSE
    /\ xpc = "idle"
    /\ xi = 0
    /\ xtries = 0
    /\ xdownloaded = FALSE
    /\ xattempts = <<>>
    /\ xurlerrors = <<>>
    /\ xresponse = "unset"

\* convertlibrarytotiles.py not started
TilesIdle ==
    /\ targs = [dirs |-> <<>>, skipqa |-> FALSE, vrt |-> FALSE, outdir |-> FALSE]
    /\ emptydirs = {}
    /\ tpc = "idle"
    /\ di = 0
    /\ flist = <<>>
    /\ toutdir = <<>>
    /\ fi = 0
    /\ calls = <<>>

\* the module's statements from line 719 on, not started
MainIdle ==
    /\ pc = "idle"
    /\ pathrowstrs = <<>>
    /\ layer = <<>>
    /\ layer0 = <<>>
    /\ reading = 0
    /\ feature = [kind |-> "unbound", fid |-> 0]
    /\ scenelist = <<>>
    /\ updatemissing = <<>>
    /\ badgeom = <<>>
    /\ reimport = <<>>
    /\ lastupdate = 0
    /\ lastmodifiedDate = 0
    /\ window = 0
    /\ returned = {}
    /\ querylist = <<>>
    /\ scenedict = <<>>
    /\ dictchanged = FALSE
    /\ filenum = 1
    /\ txn = FALSE

\* the metadata requests of a window, not started
ChunkIdle ==
    /\ cpc = "idle"
    /\ iteration = 0
    /\ total = 0
    /\ requests = <<>>

\* the search windows of scenesearch, not started
WindowIdle ==
    /\ wpc = "idle"
    /\ wargs = [startdate |-> 0, enddate |-> 0, lastmodifiedDate |-> 0,
                updatemissing |-> FALSE, badgeom |-> FALSE]
    /\ datasetName = 0
    /\ datetuple = 0
    /\ enddatetuple = 0
    /\ searches = <<>>

\* the module's statements up to line 833, not started
StartIdle ==
    /\ spc = "idle"
    /\ useWRS2 = FALSE
    /\ wrs2 = <<>>
    /\ pathrowvals = <<>>
    /\ gi = 0
    /\ paths = <<>>
    /\ rows = <<>>
    /\ MBR = <<"None">>
    /\ events = <<>>
    /\ cargs = [layerpresent |-> TRUE, migrate |-> FALSE, shapefile |-> FALSE]
    /\ layerref = "unbound"
    /\ migrated = <<>>

\* migrate before any call
MigrateIdle ==
    /\ mpc = "idle"
    /\ shplayer = <<>>

AuxIdle == ChunkIdle /\ WindowIdle /\ StartIdle /\ MigrateIdle

InitThumb ==
    /\ MainIdle
    /\ errorsfound \in BOOLEAN
    /\ errlog = {}
    /\ dlurl \in ThumbUrls
    /\ jpgs = {}
    /\ ThumbIdle
    /\ XmlIdle
    /\ TilesIdle
    /\ AuxIdle

NextThumb ==
    \/ DlthumbCall /\ UNCHANGED <<xmlVars, tileVars, mainVars, auxVars>>
    \/ DlthumbAttempt /\ UNCHANGED <<xmlVars, tileVars, mainVars, auxVars>>
    \/ DlthumbExit /\ UNCHANGED <<xmlVars, tileVars, mainVars, auxVars>>

SpecThumb == InitThumb /\ [][NextThumb]_vars

\* C1: every call of dlthumb ends after at most five download attempts,
\* whatever the outcomes of the attempts are.
C1_AtMostFiveAttempts == attempts <= 5

\* C2: when dlthumb has returned, it made at most five attempts, it returned
\* 'Success!' exactly when an attempt downloaded a file of the announced size,
\* and otherwise it logged 'Download error.' for the file, set errorsfound
\* and returned something else.
C2_ReturnValue ==
    dpc = "returned" =>
        /\ attempts <= 5
        /\ (response = "Success!") <=> downloaded
        /\ response # "Success!" =>
             /\ <<"jpg", dlurl, "Download error.">> \in errlog
             /\ errorsfound

(***************************************************************************)
(* dlxmls                                                                  *)
(***************************************************************************)

\* The loop condition with the limit off by one.
DlxmlsContinue_OffByOne(dl, t) == ~dl /\ t < RetryLimit + 1

\* while not downloaded and tries < 6
DlxmlsContinue(dl, t) == ~dl /\ t < RetryLimit

\* line 443: tries at the start of the download loop of a file, from
\* the value t left by the file before it
DlxmlsTriesAtFile(t) == 1

\* for x, p in zip(xmls, pathrows): zip stops at the shorter list
Zipped == IF Len(xmls) <= Len(pathrows.val) THEN Len(xmls) ELSE Len(pathrows.val)

\* lines 432-435: entry; the global pathrows is read when the loop starts
DlxmlsCall ==
    /\ xpc = "idle"
    /\ xtries' = 1
    /\ xdownloaded' = FALSE
    /\ xi' = 1
    /\ xpc' = IF pathrows.bound THEN "for" ELSE "raised"
    /\ UNCHANGED <<xmls, pathrows, today, xattempts, xurlerrors, xresponse>>
    /\ UNCHANGED logVars

\* lines 437-444: the head of the loop body for the pair xi; an XML file
\* already on disk is moved to a backup named after the global today
DlxmlsFile ==
    /\ xpc = "for"
    /\ xi <= Zipped
    /\ \E onDisk \in BOOLEAN :
        IF onDisk /\ ~today
          THEN /\ xpc' = "raised"
               /\ UNCHANGED <<xtries, xdownloaded>>
          ELSE /\ xpc' = "while"
               /\ xtries' = DlxmlsTriesAtFile(xtries)
               /\ xdownloaded' = FALSE
    /\ UNCHANGED <<xmls, pathrows, today, xi, xattempts, xurlerrors, xresponse>>
    /\ UNCHANGED logVars

\* lines 445-454: one pass through the download loop of the pair xi
DlxmlsAttempt ==
    /\ xpc = "while"
    /\ DlxmlsContinue(xdownloaded, xtries)
    /\ \E outcome \in {"ok", "URLError", "other"} :
        /\ xattempts' = [xattempts EXCEPT ![xi] = @ + 1]
        /\ xdownloaded' = (outcome = "ok")
        /\ IF outcome = "URLError"
             THEN /\ errlog' = errlog \cup {<<"url", <<xi>>, "URLError">>}
                  /\ errorsfound' = TRUE
                  /\ xtries' = xtries + 1
                  /\ xurlerrors' = [xurlerrors EXCEPT ![xi] = @ + 1]
             ELSE UNCHANGED <<errlog, errorsfound, xtries, xurlerrors>>
        /\ xpc' = IF outcome = "other" THEN "raised" ELSE "while"
    /\ UNCHANGED <<xmls, pathrows, today, xi, xresponse>>

\* lines 455-458: after the download loop of the pair xi
DlxmlsAfterLoop ==
    /\ xpc = "while"
    /\ ~DlxmlsContinue(xdownloaded, xtries)
    /\ IF xtries = RetryLimit
         THEN /\ errlog' = errlog \cup {<<"xml", <<xi>>, "Download error.">>}
              /\ errorsfound' = TRUE
         ELSE UNCHANGED <<errlog, errorsfound>>
    /\ xi' = xi + 1
    /\ xpc' = "for"
    /\ UNCHANGED <<xmls, pathrows, today, xtries, xdownloaded, xattempts,
                   xurlerrors, xresponse>>

\* lines 459-460: the else clause of the for loop
DlxmlsReturn ==
    /\ xpc = "for"
    /\ xi > Zipped
    /\ xresponse' = "Success!"
    /\ xpc' = "returned"
    /\ UNCHANGED <<xmls, pathrows, today, xi, xtries, xdownloaded, xattempts,
                   xurlerrors>>
    /\ UNCHANGED logVars

InitXml ==
    /\ MainIdle
    /\ errorsfound \in BOOLEAN
    /\ errlog = {}
    /\ dlurl = NoUrl
    /\ jpgs = {}
    /\ ThumbIdle
    /\ TilesIdle
    /\ \E n \in 0..MaxXmls : xmls = [i \in 1..n |-> i]
    /\ \E b \in BOOLEAN, m \in 0..MaxXmls :
          pathrows = [bound |-> b, val |-> IF b THEN [i \in 1..m |-> i] ELSE <<>>]
    /\ today \in BOOLEAN
    /\ xpc = "idle"
    /\ xi = 0
    /\ xtries = 0
    /\ xdownloaded = FALSE
    /\ xattempts = [i \in 1..Len(xmls) |-> 0]
    /\ xurlerrors = [i \in 1..Len(xmls) |-> 0]
    /\ xresponse = "unset"
    /\ AuxIdle

NextXml ==
    \/ DlxmlsCall /\ UNCHANGED <<thumbVars, tileVars, mainVars, auxVars>>
    \/ DlxmlsFile /\ UNCHANGED <<thumbVars, tileVars, mainVars, auxVars>>
    \/ DlxmlsAttempt /\ UNCHANGED <<thumbVars, tileVars, mainVars, auxVars>>
    \/ DlxmlsAfterLoop /\ UNCHANGED <<thumbVars, tileVars, mainVars, auxVars>>
    \/ DlxmlsReturn /\ UNCHANGED <<thumbVars, tileVars, mainVars, auxVars>>

SpecXml == InitXml /\ [][NextXml]_vars

\* The files whose download loop dlxmls has left.
XmlFinished == {f \in 1..Len(xmls) : f < xi}

XmlFailureLogged(f) == <<"xml", <<f>>, "Download error.">> \in errlog

\* C3: in dlxmls the attempt counter restarts for every file: each file is
\* attempted at most five times, no attempt follows a success, and a file is
\* recorded as a download failure (logged, errorsfound set) exactly when all
\* five of its attempts raised URLError.
C3_DlxmlsRetries ==
    /\ [](\A f \in 1..Len(xmls) :
            /\ xattempts[f] <= 5
            /\ (xpc = "while" /\ f = xi) => xtries = xurlerrors[f] + 1
            /\ XmlFailureLogged(f) => f \in XmlFinished /\ errorsfound
            /\ f \in XmlFinished =>
                 (XmlFailureLogged(f) <=>
                    (xattempts[f] = 5 /\ xurlerrors[f] = 5)))
    /\ [][\A f \in 1..Len(xmls) :
            (xattempts[f] > xurlerrors[f]) => xattempts'[f] = xattempts[f]]_vars

\* A run of dlxmls in which the first file failed after five URLErrors and
\* the second one was downloaded at its third attempt.
C3_Witness ==
    /\ xpc = "returned"
    /\ Len(xmls) = 2
    /\ XmlFailureLogged(1)
    /\ xattempts[1] = 5
    /\ xattempts[2] = 3
    /\ xurlerrors[2] = 2
    /\ ~XmlFailureLogged(2)

(***************************************************************************)
(* convertlibrarytotiles.py                                                *)
(***************************************************************************)

\* line 57
rastertypes == <<"pixel_qa", "Fmask", "ref", "BT", "NDVI", "EVI">>

\* The values of the six directory arguments (-q, -f, -s, -b, -n, -e) that
\* are followed: the six distinct defaults, and some in which two arguments
\* name the same directory or a directory has a name ending in vrt.
DirChoices ==
    { <<"pixelqa", "fmask", "sr", "bt", "ndvi", "evi">>,
      <<"pixelqa", "pixelqa", "sr", "bt", "ndvi", "evi">>,
      <<"pixelqa", "fmask", "pixelqa", "bt", "ndvi", "ndvi">>,
      <<"pixelqa", "fmask", "sr_vrt", "bt", "ndvi", "evi">> }

\* d.endswith('vrt')
EndsWithVrt(d) == d \in {"sr_vrt"}

\* line 51
dirs == targs.dirs

pixelqadir == targs.dirs[1]

fmaskdir == targs.dirs[2]

\* line 60: dn = dirs.index(d), the first position holding d, from 0
DirsIndex(d) == (CHOOSE i \in 1..Len(dirs) :
                    dirs[i] = d /\ \A j \in 1..(i - 1) : dirs[j] # d) - 1

\* The test of line 61 for the Pixel QA directory only.
SkipDir_PixelQaOnly(d) == targs.skipqa /\ d = pixelqadir

\* line 61
SkipDir(d) == targs.skipqa /\ d \in {pixelqadir, fmaskdir}

\* lines 63-68: outdir
OutdirOf(d) == IF targs.outdir THEN <<"outdir", d>> ELSE <<d>>

\* lines 69-74: the directory and pattern handed to glob
GlobDir(d) ==
    IF targs.vrt
      THEN IF ~EndsWithVrt(d) /\ d \notin {pixelqadir, fmaskdir}
             THEN <<d, "vrt", "L*.vrt">>
             ELSE <<d, "L*.vrt">>
      ELSE <<d, "L*.dat">>

\* The directories that hold MaxFiles files; the others hold one, or none.
LargeDirs == {"pixelqa", "ndvi"}

\* glob.glob: the files of a directory, the same at every call
Glob(g) ==
    IF g[1] \in emptydirs THEN <<>>
    ELSE IF g[1] \in LargeDirs THEN [k \in 1..MaxFiles |-> <<g, k>>]
    ELSE <<(<<g, 1>>)>>

\* The loop over flist left at the first exception, as it would be with the
\* try statement around the loop instead of inside it.
ConvertNext_StopAtException(raised, i) == IF raised THEN Len(flist) + 1 ELSE i + 1

\* lines 77-91: the position in flist of the file handled after file i,
\* by whether converttotiles raised for file i
ConvertNext(raised, i) == i + 1

\* lines 59-62: a directory skipped by --skipqa
TilesSkip ==
    /\ tpc = "for_d"
    /\ di <= Len(dirs)
    /\ SkipDir(dirs[di])
    /\ di' = di + 1
    /\ UNCHANGED <<targs, emptydirs, tpc, flist, toutdir, fi, calls>>
    /\ UNCHANGED logVars

\* lines 59-76: the head of the loop body up to the test of len(flist)
TilesGlob ==
    /\ tpc = "for_d"
    /\ di <= Len(dirs)
    /\ ~SkipDir(dirs[di])
    /\ toutdir' = OutdirOf(dirs[di])
    /\ flist' = Glob(GlobDir(dirs[di]))
    /\ IF Len(flist') > 0
         THEN tpc' = "for_f" /\ fi' = 1 /\ di' = di
         ELSE tpc' = "for_d" /\ fi' = 0 /\ di' = di + 1
    /\ UNCHANGED <<targs, emptydirs, calls>>
    /\ UNCHANGED logVars

\* lines 77-91: the body of the loop over flist for the file at fi
TilesConvert ==
    /\ tpc = "for_f"
    /\ fi <= Len(flist)
    /\ LET dn == DirsIndex(dirs[di])
           call == [f |-> flist[fi], outdir |-> toutdir,
                    rastertype |-> rastertypes[dn + 1],
                    pixelqa |-> ~(dn < 2), pass |-> di]
       IN \E raised \in BOOLEAN :
            /\ calls' = Append(calls, call)
            /\ errlog' = IF raised
                            THEN errlog \cup {<<"file", flist[fi], "Exception">>}
                            ELSE errlog
            /\ fi' = ConvertNext(raised, fi)
            /\ IF fi' > Len(flist)
                 THEN tpc' = "for_d" /\ di' = di + 1
                 ELSE tpc' = "for_f" /\ di' = di
    /\ UNCHANGED <<targs, emptydirs, flist, toutdir, errorsfound>>

\* the end of the script, after the last directory
TilesEnd ==
    /\ tpc = "for_d"
    /\ di > Len(dirs)
    /\ tpc' = "done"
    /\ UNCHANGED <<targs, emptydirs, di, flist, toutdir, fi, calls>>
    /\ UNCHANGED logVars

InitTiles ==
    /\ MainIdle
    /\ errorsfound = FALSE
    /\ errlog = {}
    /\ dlurl = NoUrl
    /\ jpgs = {}
    /\ ThumbIdle
    /\ XmlIdle
    /\ targs \in [dirs : DirChoices, skipqa : BOOLEAN, vrt : BOOLEAN,
                   outdir : BOOLEAN]
    /\ emptydirs \in {{}, {"bt"}, {"ndvi", "evi"}}
    /\ tpc = "for_d"
    /\ di = 1
    /\ flist = <<>>
    /\ toutdir = <<>>
    /\ fi = 0
    /\ calls = <<>>
    /\ AuxIdle

NextTiles ==
    \/ TilesSkip /\ UNCHANGED <<thumbVars, xmlVars, mainVars, auxVars>>
    \/ TilesGlob /\ UNCHANGED <<thumbVars, xmlVars, mainVars, auxVars>>
    \/ TilesConvert /\ UNCHANGED <<thumbVars, xmlVars, mainVars, auxVars>>
    \/ TilesEnd /\ UNCHANGED <<thumbVars, xmlVars, mainVars, auxVars>>

SpecTiles == InitTiles /\ [][NextTiles]_vars

\* The calls of converttotiles made for file f in the pass over dirs[p].
CallsOf(p, f) == {c \in 1..Len(calls) : calls[c].pass = p /\ calls[c].f = f}

\* The files of the directory at position p of dirs.
FilesOf(p) == {Glob(GlobDir(dirs[p]))[k] : k \in 1..Len(Glob(GlobDir(dirs[p])))}

\* The positions of dirs whose pass is over.
PassesDone == {p \in 1..Len(dirs) : p < di}

\* C4: an exception of converttotiles for a file is logged for that file and
\* the loop goes on: in the pass over every directory that is not skipped,
\* every file glob found is handed to converttotiles exactly once, whichever
\* files failed before, and the script then ends.
C4_EveryFileConverted ==
    /\ \A p \in PassesDone :
         /\ ~SkipDir(dirs[p]) =>
               \A f \in FilesOf(p) : Cardinality(CallsOf(p, f)) = 1
         /\ SkipDir(dirs[p]) => \A c \in 1..Len(calls) : calls[c].pass # p
    /\ \A c \in 1..Len(calls) :
         /\ calls[c].pass <= di
         /\ calls[c].f \in FilesOf(calls[c].pass)
    /\ tpc = "done" => PassesDone = 1..Len(dirs)
    /\ tpc # "done" => ENABLED NextTiles

\* The script has ended, converttotiles raised for a file of the first
\* directory, and the files of the last directory were converted after it.
C4_Witness ==
    /\ tpc = "done"
    /\ \E c \in 1..Len(calls) :
          calls[c].pass = 1 /\ <<"file", calls[c].f, "Exception">> \in errlog
    /\ \E c \in 1..Len(calls) :
          calls[c].pass = 6 /\ <<"file", calls[c].f, "Exception">> \notin errlog

\* The directory in which glob found the file of a call of converttotiles.
DirOfCall(c) == calls[c].f[1][1]

\* C14: with --skipqa no file of the Pixel QA directory and no file of the
\* Fmask directory is handed to converttotiles, and when the script has ended
\* every file of the surface reflectance, brightness temperature, NDVI and
\* EVI directories (as far as they are not the Pixel QA or Fmask directory)
\* was handed to it.
C14_SkipQa ==
    targs.skipqa =>
        /\ \A c \in 1..Len(calls) : DirOfCall(c) \notin {dirs[1], dirs[2]}
        /\ tpc = "done" =>
             \A p \in 3..6 :
                dirs[p] \notin {dirs[1], dirs[2]} =>
                    \A f \in FilesOf(p) : \E c \in 1..Len(calls) : calls[c].f = f

\* The script has ended with --skipqa: the Pixel QA and Fmask directories
\* differ and hold files, and files of the surface reflectance and of the
\* EVI directory were converted.
C14_Witness ==
    /\ tpc = "done"
    /\ targs.skipqa
    /\ dirs[1] # dirs[2]
    /\ FilesOf(1) # {} /\ FilesOf(2) # {}
    /\ \E c \in 1..Len(calls) : calls[c].pass = 3
    /\ \E c \in 1..Len(calls) : calls[c].pass = 6

\* C22: every file is handed to converttotiles with the raster type of the
\* directory argument in whose pass it was found (pixel_qa, Fmask, ref, BT,
\* NDVI, EVI, in the order of dirs) and with pixelqa = False only in the
\* passes of the Pixel QA and the Fmask argument, also when two arguments name
\* the same directory.
C22_RasterTypeOfDirectory ==
    \A c \in 1..Len(calls) :
        /\ calls[c].rastertype = rastertypes[calls[c].pass]
        /\ calls[c].pixelqa = (calls[c].pass > 2)

(***************************************************************************)
(* updatelandsat.py: the module's statements from line 719 on              *)
(*                                                                         *)
(* A scene ID is <<sensor and satellite, path/row, acquisition day>>, the  *)
(* three parts that the script cuts out of the identifier: sceneID[:3],    *)
(* sceneID[3:9] and sceneID[9:16].  A date is a day number; 0 stands for   *)
(* None and -1 for a value that strptime rejects.  A geometry is its       *)
(* envelope <<minX, maxX, minY, maxY>>, and <<>> when the feature has none. *)
(***************************************************************************)

S1 == <<"LC8", "207023", 1>>

S2 == <<"LE7", "207023", 2>>

S3 == <<"LT5", "208024", 3>>

\* The scenes of the remote inventory, in the order the search returns them.
ScenesSeq == <<S1, S2, S3>>

Scenes == {ScenesSeq[i] : i \in 1..Len(ScenesSeq)}

\* The values of pathrowstrs that are followed.
PathRowChoices == {<<"207023">>, <<"208024">>}

Range(q) == {q[i] : i \in 1..Len(q)}

\* sceneID[3:9]
PathRowOf(sceneID) == sceneID[2]

\* datetime.datetime.strptime(sceneID[9:16], '%Y%j')
AcquisitionDate(sceneID) == sceneID[3]

NoGeom == <<>>

\* The polygon built from the remote footprint of a scene (lines 875-888,
\* 922-935), as its envelope in the local projection.
FootprintPolygon(sceneID) == <<10, 11, 10 + sceneID[3], 11 + sceneID[3]>>

\* The modifiedDate the metadata request returns for a scene (line 294).
RemoteModifiedDate(sceneID) == 5

\* line 767
ValidSensors == {"TM", "ETM", "OLI", "TIRS", "OLI_TIRS"}

\* The field values of the features the catalog layer holds at the start:
\* SensorID, dateUpdated and the geometry.
FeatureKinds ==
    { [SensorID |-> "None", dateUpdated |-> 2, geom |-> <<0, 1, 0, 1>>],
      [SensorID |-> "OLI", dateUpdated |-> 2, geom |-> <<0, 1, 0, 1>>],
      [SensorID |-> "ETM", dateUpdated |-> 0, geom |-> <<0, 1, 0, 1>>],
      [SensorID |-> "TM", dateUpdated |-> -1, geom |-> <<0, 0, 0, 1>>],
      [SensorID |-> "OLI_TIRS", dateUpdated |-> 0, geom |-> NoGeom],
      [SensorID |-> "TIRS", dateUpdated |-> 4, geom |-> <<0, 1, 0, 0>>] }

MkFeature(fid, sceneID, k) ==
    [fid |-> fid, sceneID |-> sceneID, SensorID |-> k.SensorID,
     dateUpdated |-> k.dateUpdated, geom |-> k.geom]

\* The layers the script may find: at most MaxFeatures features with FIDs
\* from 1 and with different scene IDs.
InitialLayers ==
    UNION { { [i \in 1..n |-> MkFeature(i, ids[i], kinds[i])] :
                ids \in {f \in [1..n -> Scenes] :
                           \A i, j \in 1..n : i # j => f[i] # f[j]},
                kinds \in [1..n -> FeatureKinds] } : n \in 0..MaxFeatures }

\* The global feature before the validation pass (lines 94-120): with
\* useWRS2 = yes it is the last feature read from the WRS-2 layer, whose data
\* source has been closed; otherwise, or when that layer is empty, the name
\* is not bound.
InitialFeatures ==
    {[kind |-> "unbound", fid |-> 0]} \cup
    {[kind |-> "wrs2", fid |-> f] : f \in 0..MaxFeatures}

FIDs(lyr) == {lyr[i].fid : i \in 1..Len(lyr)}

FeatureAt(lyr, fid) == lyr[CHOOSE i \in 1..Len(lyr) : lyr[i].fid = fid]

\* layer.GetNextFeature(): the feature after the one returned last, or None
GetNextFeature(lyr, last) ==
    IF \E f \in FIDs(lyr) : f > last
      THEN [kind |-> "catalog",
            fid |-> CHOOSE f \in FIDs(lyr) :
                      f > last /\ \A g \in FIDs(lyr) : g > last => f <= g]
      ELSE [kind |-> "None", fid |-> 0]

\* layer.DeleteFeature(fid)
DeleteFeature(lyr, fid) == SelectSeq(lyr, LAMBDA f : f.fid # fid)

\* layer.GetFeatureCount()
GetFeatureCount(lyr) == Len(lyr)

\* line 779: whether strptime(mdate, '%Y/%m/%d') returns
DateParses(mdate) == mdate > 0

\* lines 795-812: whether the feature goes on badgeom, because GetEnvelope
\* cannot be called on a missing geometry or the envelope is flat
GeometryIsBad(geom) ==
    \/ geom = NoGeom
    \/ geom[1] = geom[2]
    \/ geom[3] = geom[4]

\* min(reimport)
MinOf(q) == CHOOSE x \in Range(q) : \A y \in Range(q) : x <= y

\* lines 747-751: the test of the feature count, StartTransaction, the first
\* GetNextFeature, whose result is dropped, and the first test of
\* "while feature", which reads the global feature
ValidateStart ==
    /\ pc = "validate"
    /\ IF GetFeatureCount(layer) > 0
         THEN /\ reading' = GetNextFeature(layer, reading).fid
              /\ pc' = IF feature.kind = "unbound" THEN "crashed" ELSE "while_feature"
         ELSE /\ pc' = "reimport"
              /\ UNCHANGED reading
    /\ txn' = (GetFeatureCount(layer) > 0)
    /\ UNCHANGED <<pathrowstrs, layer, layer0, feature, validVars, searchVars,
                   dictchanged, filenum>>
    /\ UNCHANGED <<logVars, thumbVars>>

\* lines 753-765 for the feature left over from the WRS-2 layer: it has no
\* field sceneID, GetField raises, and the handler deletes the catalog
\* feature that has its FID
ValidateStale ==
    /\ pc = "while_feature"
    /\ feature.kind = "wrs2"
    /\ layer' = DeleteFeature(layer, feature.fid)
    /\ errlog' = errlog \cup {<<"layer", <<feature.fid>>, "Exception">>}
    /\ feature' = GetNextFeature(layer', reading)
    /\ reading' = feature'.fid
    /\ UNCHANGED <<txn, pc, pathrowstrs, layer0, validVars, searchVars, dictchanged,
                   filenum, errorsfound>>
    /\ UNCHANGED thumbVars

\* lines 753-815 for a feature of the catalog layer
ValidateFeature ==
    /\ pc = "while_feature"
    /\ feature.kind = "catalog"
    /\ LET f == FeatureAt(layer, feature.fid)
           sceneID == f.sceneID
           valid == f.SensorID \in ValidSensors
           dated == valid /\ DateParses(f.dateUpdated)
           newer == dated /\ (lastupdate = 0 \/ f.dateUpdated > lastupdate)
       IN /\ scenelist' = Append(scenelist, sceneID)
          /\ layer' = IF valid THEN layer ELSE DeleteFeature(layer, f.fid)
          /\ reimport' = IF valid THEN reimport
                         ELSE Append(reimport, AcquisitionDate(sceneID))
          /\ lastupdate' = IF newer THEN f.dateUpdated ELSE lastupdate
          /\ lastmodifiedDate' = IF newer THEN f.dateUpdated ELSE lastmodifiedDate
          /\ updatemissing' = IF valid /\ ~dated
                                THEN Append(updatemissing, sceneID)
                                ELSE updatemissing
          /\ badgeom' = IF valid /\ GeometryIsBad(f.geom)
                          THEN Append(badgeom, sceneID)
                          ELSE badgeom
          /\ errlog' = errlog
               \cup (IF valid THEN {} ELSE {<<"scene", sceneID, "Feature missing metadata, deleted, reimportation required.">>})
               \cup (IF valid /\ ~dated THEN {<<"scene", sceneID, "Modification date missing.">>} ELSE {})
               \cup (IF valid /\ GeometryIsBad(f.geom) THEN {<<"scene", sceneID, "Bad/ missing geometry.">>} ELSE {})
          /\ feature' = GetNextFeature(layer', reading)
          /\ reading' = feature'.fid
    /\ UNCHANGED <<txn, pc, pathrowstrs, layer0, searchVars, dictchanged, filenum,
                   errorsfound>>
    /\ UNCHANGED thumbVars

\* line 816: the end of the while loop and CommitTransaction
ValidateEnd ==
    /\ pc = "while_feature"
    /\ feature.kind = "None"
    /\ pc' = "reimport"
    /\ txn' = FALSE
    /\ UNCHANGED <<pathrowstrs, layer, layer0, reading, feature, validVars,
                   searchVars, dictchanged, filenum>>
    /\ UNCHANGED <<logVars, thumbVars>>

\* lines 818-820: whether the statement of line 820 is reached; it calls
\* datetime.datetime.strftime with the format where the date belongs, which
\* raises TypeError
ReimportEarlier(ri, lu) ==
    /\ Len(ri) > 0
    /\ lu # 0
    /\ MinOf(ri) < lu

\* lines 818-833: the start date for the re-import, and the login
ReimportCheck ==
    /\ pc = "reimport"
    /\ pc' = IF ReimportEarlier(reimport, lastupdate) THEN "crashed" ELSE "search"
    /\ UNCHANGED <<txn, pathrowstrs, layer, layer0, reading, feature, validVars,
                   searchVars, dictchanged, filenum>>
    /\ UNCHANGED <<logVars, thumbVars>>

(***************************************************************************)
(* scenesearch                                                             *)
(***************************************************************************)

\* The test of line 199 without its path/row part.
InQueryList_AnyPathRow(sceneID, sl, um, bg) ==
    \/ sceneID \notin Range(sl)
    \/ sceneID \in Range(um)
    \/ sceneID \in Range(bg)

\* line 199: whether a scene of a search response goes on querylist and
\* into scenedict
InQueryList(sceneID, sl, um, bg) ==
    /\ PathRowOf(sceneID) \in Range(pathrowstrs)
    /\ \/ sceneID \notin Range(sl)
       \/ sceneID \in Range(um)
       \/ sceneID \in Range(bg)

\* lines 201-211: the entry made for a scene of querylist; coords tells
\* whether the key 'coords' is present
NewEntry(sceneID) ==
    [sceneID |-> sceneID, updatemodifiedDate |-> FALSE, updategeom |-> FALSE,
     coords |-> FALSE]

\* lines 285-294: the entry of a scene after its metadata item was read
WithMetadata(e, um, bg) ==
    [e EXCEPT !.updatemodifiedDate =
                  (e.sceneID \in Range(bg) \/ e.sceneID \in Range(um)),
              !.updategeom = (e.sceneID \in Range(bg)),
              !.coords = TRUE]

\* json_data['data']['results'] of a request that returns the scenes of res
ResultsOf(res) == SelectSeq(ScenesSeq, LAMBDA x : x \in res)

\* The largest length of querylist for which the metadata requests are
\* followed on their own.
MaxQuery == 201

\* lines 215, 219: the size of a block of scene IDs
BlockSize == 100

\* line 215: math.ceil(len(querylist) / 100)
Iterations(n) == (n + BlockSize - 1) \div BlockSize

\* line 219
Startval(it) == it * BlockSize

\* lines 220-223
Endval(it, n) ==
    IF it * BlockSize > n THEN n - Startval(it) - 1 ELSE Startval(it) + 99

\* q[a:b] of Python for a >= 0: a negative b counts from the end, and both
\* ends are cut to the length of q
Slice(q, a, b) ==
    LET n == Len(q)
        hi0 == IF b < 0 THEN b + n ELSE b
        hi == IF hi0 < 0 THEN 0 ELSE IF hi0 > n THEN n ELSE hi0
        lo == IF a > n THEN n ELSE a
    IN IF hi <= lo THEN <<>> ELSE [k \in 1..(hi - lo) |-> q[lo + k]]

\* line 228: the scene IDs of the request of an iteration
QuerySlice(q, it) == Slice(q, Startval(it), Endval(it, Len(q)))

\* The scene IDs of querylist that some metadata request names.
SentIds(q) ==
    UNION {Range(QuerySlice(q, it)) : it \in 0..(Iterations(Len(q)) - 1)}

\* lines 213-216: the test of len(querylist), iterations and total
ChunkStart ==
    /\ cpc = "start"
    /\ cpc' = IF Len(querylist) > 0 THEN "for" ELSE "done"
    /\ iteration' = 0
    /\ total' = 0
    /\ UNCHANGED requests

\* lines 218-234: one pass of the loop over the blocks, up to the request
ChunkRequest ==
    /\ cpc = "for"
    /\ iteration < Iterations(Len(querylist))
    /\ total' = total + Endval(iteration, Len(querylist)) + 1
    /\ requests' = Append(requests, QuerySlice(querylist, iteration))
    /\ iteration' = iteration + 1
    /\ UNCHANGED cpc

\* the end of the loop of line 218
ChunkEnd ==
    /\ cpc = "for"
    /\ iteration >= Iterations(Len(querylist))
    /\ cpc' = "done"
    /\ UNCHANGED <<iteration, total, requests>>

\* lines 174-298: one search window: the search request, querylist, the
\* metadata requests and their items.  A scene is returned by one window
\* only, since the windows do not share a day; the metadata response may
\* leave out scenes that were asked for.
ScenesearchWindow ==
    /\ pc = "search"
    /\ window < MaxWindows
    /\ \E res \in SUBSET (Scenes \ returned) :
         LET ql == SelectSeq(ResultsOf(res),
                     LAMBDA x : InQueryList(x, scenelist, updatemissing, badgeom))
         IN \E got \in SUBSET SentIds(ql) :
              /\ querylist' = ql
              /\ returned' = returned \cup res
              /\ scenedict' =
                   scenedict \o
                   [i \in 1..Len(ql) |->
                      IF ql[i] \in got
                        THEN WithMetadata(NewEntry(ql[i]), updatemissing, badgeom)
                        ELSE NewEntry(ql[i])]
    /\ window' = window + 1
    /\ UNCHANGED <<txn, pc, pathrowstrs, layer, layer0, reading, feature, validVars,
                   dictchanged, filenum>>
    /\ UNCHANGED <<logVars, thumbVars>>

\* lines 299, 837-841: scenesearch returns scenedict
ScenesearchReturn ==
    /\ pc = "search"
    /\ pc' = "scenes"
    /\ UNCHANGED <<txn, pathrowstrs, layer, layer0, reading, feature, validVars,
                   searchVars, dictchanged, filenum>>
    /\ UNCHANGED <<logVars, thumbVars>>

(***************************************************************************)
(* the per-scene loop                                                      *)
(***************************************************************************)

\* line 844
IsNewScene(e) == ~(e.updategeom \/ e.updatemodifiedDate) /\ e.coords

\* The value of the metadata field 'Sensor Identifier' of a scene.
RemoteSensor(sceneID) ==
    IF sceneID[1] = "LC8" THEN "OLI_TIRS"
    ELSE IF sceneID[1] = "LE7" THEN "ETM" ELSE "TM"

MaxFid(lyr) == IF lyr = <<>> THEN 0
               ELSE CHOOSE f \in FIDs(lyr) : \A g \in FIDs(lyr) : g <= f

\* layer.CreateFeature(feature): the feature gets a FID of its own
CreateFeature(lyr, first, f) ==
    Append(lyr, [f EXCEPT !.fid =
                   1 + (IF MaxFid(lyr) > Len(first) THEN MaxFid(lyr) ELSE Len(first))])

\* lines 853-888: the feature built for a new scene; the field whose
\* SetField raised stays unset
NewFeature(sceneID, log) ==
    [fid |-> 0, sceneID |-> sceneID, SensorID |-> RemoteSensor(sceneID),
     dateUpdated |-> IF <<"field", sceneID, "Exception">> \in log
                       THEN 0 ELSE RemoteModifiedDate(sceneID),
     geom |-> FootprintPolygon(sceneID)]

\* lines 917-950: the layer after the pass over its features for a scene
\* that is updated
UpdateFeatures(lyr, e) ==
    [i \in 1..Len(lyr) |->
       IF lyr[i].sceneID = e.sceneID
         THEN [lyr[i] EXCEPT
                 !.geom = IF e.updategeom
                            THEN FootprintPolygon(e.sceneID) ELSE @,
                 !.dateUpdated = IF e.updatemodifiedDate
                                   THEN RemoteModifiedDate(e.sceneID) ELSE @]
         ELSE lyr[i]]

\* The thumbnails in jpgdir when the script starts.
InitialJpgs == {S2, S3}

\* The scenes for which the tile directories hold files (line 304); whether
\* the header of such a file names the scene as a parent raster is open.
TileCandidates == {S2}

\* line 842: the for statement finds that scenedict changed size while its
\* keys are iterated, because findlocalfiles added a key (line 320)
SceneLoopChanged ==
    /\ pc = "scenes"
    /\ dictchanged
    /\ pc' = "crashed"
    /\ UNCHANGED <<txn, pathrowstrs, layer, layer0, reading, feature, validVars,
                   searchVars, dictchanged, filenum>>
    /\ UNCHANGED <<logVars, thumbVars>>

\* lines 843-893, 914-915, 952: the body of the loop for a new scene, up to
\* the call of dlthumb or, without one, to its end.  tiles: findlocalfiles
\* finds tiles of the scene; jpgUrl: browseUrl ends in .jpg; fieldRaises: a
\* SetField raises; polyRaises: building the polygon raises.  dlthumb is
\* called when the thumbnail named by dlurl is not in jpgdir (--thumbnails
\* keeps its default).
SceneCreate ==
    /\ pc = "scenes"
    /\ ~dictchanged
    /\ filenum <= Len(scenedict)
    /\ IsNewScene(scenedict[filenum])
    /\ \E tiles, jpgUrl, fieldRaises, polyRaises \in BOOLEAN :
         LET sceneID == scenedict[filenum].sceneID
         IN /\ tiles => sceneID \in TileCandidates
            /\ dictchanged' = tiles
            /\ dlurl' = IF jpgUrl THEN sceneID ELSE dlurl
            /\ scenelist' = Append(scenelist, sceneID)
            /\ feature' = [kind |-> "new", fid |-> 0]
            /\ errlog' = IF fieldRaises
                            THEN errlog \cup {<<"field", sceneID, "Exception">>}
                            ELSE errlog
            /\ IF polyRaises \/ dlurl' = NoUrl
                 THEN /\ pc' = "crashed"
                      /\ UNCHANGED <<layer, filenum, dpc, tries, downloaded,
                                     attempts, response>>
                 ELSE IF dlurl' \notin jpgs
                   THEN /\ pc' = "dlthumb"
                        /\ DlthumbBegin
                        /\ UNCHANGED <<layer, filenum>>
                   ELSE /\ layer' = CreateFeature(layer, layer0,
                                                  NewFeature(sceneID, errlog'))
                        /\ filenum' = filenum + 1
                        /\ UNCHANGED <<pc, dpc, tries, downloaded, attempts,
                                       response>>
    /\ UNCHANGED <<txn, pathrowstrs, layer0, reading, updatemissing, badgeom,
                   reimport, lastupdate, lastmodifiedDate, searchVars,
                   errorsfound, jpgs>>

\* lines 893-915, 952: after dlthumb has returned or raised: the world file
\* or the error entry, CreateFeature, filenum.  worldRaises: makeworldfile
\* raises.
SceneThumbDone ==
    /\ pc = "dlthumb"
    /\ dpc \in {"returned", "raised"}
    /\ LET sceneID == scenedict[filenum].sceneID
       IN /\ \E worldRaises \in BOOLEAN :
               IF dpc = "returned" /\ response = "Success!" /\ ~worldRaises
                 THEN UNCHANGED <<errlog, errorsfound>>
                 ELSE /\ errorsfound' = TRUE
                      /\ errlog' = errlog \cup
                           {IF dpc = "returned" /\ response # "Success!"
                              THEN <<"scene", sceneID, response>>
                              ELSE <<"jpg", dlurl, "Exception">>}
          /\ layer' = CreateFeature(layer, layer0, NewFeature(sceneID, errlog))
    /\ filenum' = filenum + 1
    /\ pc' = "scenes"
    /\ dpc' = "idle"
    /\ tries' = 0
    /\ downloaded' = FALSE
    /\ attempts' = 0
    /\ response' = "unset"
    /\ UNCHANGED <<txn, pathrowstrs, layer0, reading, feature, validVars, searchVars,
                   dictchanged, dlurl, jpgs>>

\* lines 916-952: the body of the loop for a scene that is not new: every
\* feature of the layer with its scene ID is updated and written back.
\* polyRaises: building the polygon raises.
SceneUpdate ==
    /\ pc = "scenes"
    /\ ~dictchanged
    /\ filenum <= Len(scenedict)
    /\ ~IsNewScene(scenedict[filenum])
    /\ LET e == scenedict[filenum]
           hit == \E i \in 1..Len(layer) : layer[i].sceneID = e.sceneID
       IN \E polyRaises \in BOOLEAN :
            IF polyRaises /\ hit /\ e.updategeom
              THEN /\ pc' = "crashed"
                   /\ UNCHANGED <<layer, filenum, feature>>
              ELSE /\ layer' = UpdateFeatures(layer, e)
                   /\ filenum' = filenum + 1
                   /\ feature' = IF layer = <<>> THEN feature
                                 ELSE [kind |-> "catalog", fid |-> MaxFid(layer)]
                   /\ UNCHANGED pc
    /\ UNCHANGED <<txn, pathrowstrs, layer0, reading, validVars, searchVars,
                   dictchanged>>
    /\ UNCHANGED <<logVars, thumbVars>>

\* lines 954-956: the end of the loop and of the script
ScenesEnd ==
    /\ pc = "scenes"
    /\ ~dictchanged
    /\ filenum > Len(scenedict)
    /\ pc' = "done"
    /\ UNCHANGED <<txn, pathrowstrs, layer, layer0, reading, feature, validVars,
                   searchVars, dictchanged, filenum>>
    /\ UNCHANGED <<logVars, thumbVars>>

\* The state at line 747, with a catalog layer of at most n features.
InitLayers(n) ==
    /\ errorsfound = FALSE
    /\ errlog = {}
    /\ dlurl = NoUrl
    /\ jpgs = InitialJpgs
    /\ ThumbIdle
    /\ XmlIdle
    /\ TilesIdle
    /\ pc = "validate"
    /\ pathrowstrs \in PathRowChoices
    /\ layer \in {l \in InitialLayers : Len(l) <= n}
    /\ layer0 = layer
    /\ reading = 0
    /\ feature \in InitialFeatures
    /\ scenelist = <<>>
    /\ updatemissing = <<>>
    /\ badgeom = <<>>
    /\ reimport = <<>>
    /\ lastupdate = 0
    /\ lastmodifiedDate = 0
    /\ window = 0
    /\ returned = {}
    /\ querylist = <<>>
    /\ scenedict = <<>>
    /\ dictchanged = FALSE
    /\ filenum = 1
    /\ AuxIdle
    /\ txn = FALSE

Init == InitLayers(MaxLoopFeatures)

InitSearch == InitLayers(MaxFeatures)

Next ==
    \/ ValidateStart /\ UNCHANGED <<xmlVars, tileVars, auxVars>>
    \/ ValidateStale /\ UNCHANGED <<xmlVars, tileVars, auxVars>>
    \/ ValidateFeature /\ UNCHANGED <<xmlVars, tileVars, auxVars>>
    \/ ValidateEnd /\ UNCHANGED <<xmlVars, tileVars, auxVars>>
    \/ ReimportCheck /\ UNCHANGED <<xmlVars, tileVars, auxVars>>
    \/ ScenesearchWindow /\ UNCHANGED <<xmlVars, tileVars, auxVars>>
    \/ ScenesearchReturn /\ UNCHANGED <<xmlVars, tileVars, auxVars>>
    \/ SceneLoopChanged /\ UNCHANGED <<xmlVars, tileVars, auxVars>>
    \/ SceneCreate /\ UNCHANGED <<xmlVars, tileVars, auxVars>>
    \/ DlthumbAttempt /\ UNCHANGED <<xmlVars, tileVars, mainVars, auxVars>>
    \/ DlthumbExit /\ UNCHANGED <<xmlVars, tileVars, mainVars, auxVars>>
    \/ SceneThumbDone /\ UNCHANGED <<xmlVars, tileVars, auxVars>>
    \/ SceneUpdate /\ UNCHANGED <<xmlVars, tileVars, auxVars>>
    \/ ScenesEnd /\ UNCHANGED <<xmlVars, tileVars, auxVars>>

Spec == Init /\ [][Next]_vars

\* The validation pass and scenesearch, without the per-scene loop.
NextSearch ==
    \/ ValidateStart /\ UNCHANGED <<xmlVars, tileVars, auxVars>>
    \/ ValidateStale /\ UNCHANGED <<xmlVars, tileVars, auxVars>>
    \/ ValidateFeature /\ UNCHANGED <<xmlVars, tileVars, auxVars>>
    \/ ValidateEnd /\ UNCHANGED <<xmlVars, tileVars, auxVars>>
    \/ ReimportCheck /\ UNCHANGED <<xmlVars, tileVars, auxVars>>
    \/ ScenesearchWindow /\ UNCHANGED <<xmlVars, tileVars, auxVars>>
    \/ ScenesearchReturn /\ UNCHANGED <<xmlVars, tileVars, auxVars>>

SpecSearch == InitSearch /\ [][NextSearch]_vars

\* The scene IDs that are keys of scenedict.
SceneIDs == {scenedict[i].sceneID : i \in 1..Len(scenedict)}

EntryOf(sceneID) ==
    scenedict[CHOOSE i \in 1..Len(scenedict) : scenedict[i].sceneID = sceneID]

\* The features of the layer that carry a scene ID.
FeaturesOf(lyr, sceneID) == {i \in 1..Len(lyr) : lyr[i].sceneID = sceneID}

\* The script has ended, by reaching its last statement or by an exception
\* that nothing catches.
Ended == pc \in {"done", "crashed"}

\* The validation pass has run to its end.
Validated == pc \in {"reimport", "search", "scenes", "dlthumb", "done"}

\* C5: in the per-scene loop an error raised while one scene is processed is
\* logged and the loop goes on with the next scene: when the script has
\* ended, every scene ID of the search result has been processed.
C5_EverySceneProcessed == Ended => filenum > Len(scenedict)

\* The validation pass deleted feature f because of its SensorID.
DeletedForSensor(f) ==
    /\ f.SensorID \notin ValidSensors
    /\ f.fid \notin FIDs(layer)
    /\ <<"scene", f.sceneID,
         "Feature missing metadata, deleted, reimportation required.">> \in errlog

\* C6: a feature that the validation pass deleted because of its SensorID is
\* re-imported: when the search returns its scene ID with a configured
\* path/row, the scene ID is put on the metadata query list, and once its
\* metadata is there and the loop has ended, the layer holds a feature for it.
C6_DeletedIsReimported ==
    \A i \in 1..Len(layer0) :
        LET f == layer0[i] IN
        (/\ DeletedForSensor(f)
         /\ f.sceneID \in returned
         /\ PathRowOf(f.sceneID) \in Range(pathrowstrs))
        => /\ f.sceneID \in SceneIDs
           /\ (pc = "done" /\ EntryOf(f.sceneID).coords)
                => FeaturesOf(layer, f.sceneID) # {}

\* C7: scene IDs stay unique in the layer: no two features of the layer carry
\* the same sceneID at the start, and so none do at any later point of the
\* run.
C7_SceneIDsUnique ==
    \A i, j \in 1..Len(layer) :
        layer[i].sceneID = layer[j].sceneID => i = j

\* C8: a feature with a valid SensorID whose geometry is missing or whose
\* envelope has no width or no height is put on badgeom by the validation
\* pass; it is never deleted and no second feature is made for its scene; and
\* when the search returned its scene with metadata and the loop has ended,
\* its geometry is the polygon built from the remote footprint.
C8_BadGeometryRepaired ==
    \A i \in 1..Len(layer0) :
        LET f == layer0[i] IN
        (f.SensorID \in ValidSensors /\ GeometryIsBad(f.geom))
        => /\ Validated => f.sceneID \in Range(badgeom)
           /\ f.fid \in FIDs(layer)
           /\ Cardinality(FeaturesOf(layer, f.sceneID)) = 1
           /\ (pc = "done" /\ f.sceneID \in SceneIDs /\ EntryOf(f.sceneID).coords)
                => FeatureAt(layer, f.fid).geom = FootprintPolygon(f.sceneID)

\* C9: a feature with a valid SensorID whose dateUpdated is missing or cannot
\* be parsed is put on updatemissing by the validation pass, and when the
\* search returned its scene with metadata and the loop has ended, its
\* dateUpdated is the remote modifiedDate.
C9_MissingDateRepaired ==
    \A i \in 1..Len(layer0) :
        LET f == layer0[i] IN
        (f.SensorID \in ValidSensors /\ ~DateParses(f.dateUpdated))
        => /\ Validated => f.sceneID \in Range(updatemissing)
           /\ (pc = "done" /\ f.sceneID \in SceneIDs /\ EntryOf(f.sceneID).coords)
                => /\ f.fid \in FIDs(layer)
                   /\ FeatureAt(layer, f.fid).dateUpdated
                        = RemoteModifiedDate(f.sceneID)

\* C10: a scene that a search request returned is on the metadata query list
\* and in scenedict if and only if its path/row is in pathrowstrs and it is
\* not in scenelist, or is in updatemissing, or is in badgeom; scenedict never
\* holds a scene whose path/row is not configured.
C10_QueryListFilter ==
    /\ \A s \in returned :
         s \in SceneIDs <=>
           /\ s[2] \in Range(pathrowstrs)
           /\ \/ s \notin Range(scenelist)
              \/ s \in Range(updatemissing)
              \/ s \in Range(badgeom)
    /\ SceneIDs \subseteq returned
    /\ Range(querylist) \subseteq SceneIDs
    /\ \A s \in SceneIDs : s[2] \in Range(pathrowstrs)

\* scenesearch has returned; a scene of the catalog came back and was queried
\* because it is on badgeom, another came back with a path/row that is not
\* configured and was left out.
C10_Witness ==
    /\ pc = "scenes"
    /\ \E s \in SceneIDs : s \in Range(scenelist) /\ s \in Range(badgeom)
    /\ \E s \in returned : s[2] \notin Range(pathrowstrs) /\ s \notin SceneIDs

\* C12: every edit of the catalog layer (a feature deleted by the validation
\* pass, a feature created or updated by the per-scene loop) is made while a
\* transaction started by StartTransaction is open, and when the script has
\* ended no transaction is left open.
C12_EditsInTransaction ==
    /\ [][layer' # layer => txn]_vars
    /\ [](Ended => ~txn)

\* The dateUpdated values of the features with a valid SensorID and a date
\* that can be parsed.
UpdateDates(lyr) ==
    {lyr[i].dateUpdated : i \in {k \in 1..Len(lyr) :
        lyr[k].SensorID \in ValidSensors /\ DateParses(lyr[k].dateUpdated)}}

\* C19: after the validation pass lastmodifiedDate is the latest dateUpdated
\* over the features of the catalog that have a valid SensorID and a date
\* that can be parsed, and None when there is no such feature; this date is
\* the start date of the search when updatemissing and badgeom are empty.
C19_LastModifiedDate ==
    pc = "reimport" =>
        IF UpdateDates(layer0) = {}
          THEN lastmodifiedDate = 0
          ELSE /\ lastmodifiedDate \in UpdateDates(layer0)
               /\ \A d \in UpdateDates(layer0) : d <= lastmodifiedDate

\* C20: when the validation pass deleted a feature for re-import and the
\* earliest acquisition date of the deleted scenes is before the latest
\* dateUpdated, lastmodifiedDate becomes that acquisition date and the script
\* goes on to the search; otherwise lastmodifiedDate stays as it is.
C20_ReimportDate ==
    [][pc = "reimport" =>
         IF Len(reimport) > 0 /\ lastupdate # 0 /\ MinOf(reimport) < lastupdate
           THEN lastmodifiedDate' = MinOf(reimport) /\ pc' = "search"
           ELSE lastmodifiedDate' = lastmodifiedDate]_vars

(***************************************************************************)
(* updatelandsat.py: the module's statements up to the catalog, lines      *)
(* 94-120 and 547-554                                                      *)
(***************************************************************************)

\* The largest number of values of pathrowvals.
MaxVals == 8

\* The largest number of comma-separated parts of --MBR.
MaxParts == 5

\* The path and row numbers of the INI values that are enumerated.
PathRowValues == {9, 10}

\* The values of config pathrowvals, split and read as integers.
PathRowVals ==
    UNION {[1..n -> PathRowValues] : n \in 0..MaxVals}
    \cup {<<207, 208, 23, 24>>, <<99, 100, 9, 9>>}

\* The features of the WRS-2 layer, as <<PATH, ROW>>.
Wrs2Layers ==
    {<<>>, <<(<<207, 23>>)>>, <<(<<207, 23>>), <<207, 24>>>>,
     <<(<<207, 23>>), <<208, 23>>>>}

\* The values of args.MBR: None, the empty string, and strings of one to
\* MaxParts comma-separated parts; a string is the sequence of its parts.
MbrChoices ==
    {<<"None">>, <<"str", <<"">>>>}
    \cup {<<"str", [i \in 1..n |-> "c"]>> : n \in 1..MaxParts}

\* The decimal digits of a natural number.
RECURSIVE Digits(_)
Digits(n) == IF n < 10 THEN <<n>> ELSE Append(Digits(n \div 10), n % 10)

\* '{:03d}'.format(n) without the padding.
Format03d_Unpadded(n) == Digits(n)

\* '{:03d}'.format(n) for n >= 0: the digits, with zeros in front up to a
\* width of three
Format03d(n) ==
    LET d == Digits(n)
    IN IF Len(d) >= 3 THEN d ELSE [i \in 1..(3 - Len(d)) |-> 0] \o d

\* '{:03d}{:03d}'.format(j, k)
FormatPathRow(j, k) == Format03d(j) \o Format03d(k)

\* "if not x in seq: seq.append(x)"
AppendNew(seq, x) == IF x \in Range(seq) THEN seq ELSE Append(seq, x)

\* the appends of "for x in range(a, b + 1): if not x in seq: seq.append(x)"
RECURSIVE AddRange(_, _, _)
AddRange(seq, a, b) ==
    IF a > b THEN seq ELSE AddRange(AppendNew(seq, a), a + 1, b)

\* lines 117-120 for one j: rows after the loop over k
RECURSIVE RowsAfter(_, _, _, _, _)
RowsAfter(rs, a, b, c, d) ==
    IF a > b THEN rs ELSE RowsAfter(AddRange(rs, c, d), a + 1, b, c, d)

\* lines 117-118 for one j: pathrowstrs after the loop over k
RECURSIVE StrsOfPath(_, _, _, _)
StrsOfPath(strs, j, c, d) ==
    IF c > d THEN strs
    ELSE StrsOfPath(Append(strs, FormatPathRow(j, c)), j, c + 1, d)

\* lines 114-118: pathrowstrs after the loop over j
RECURSIVE StrsAfter(_, _, _, _, _)
StrsAfter(strs, a, b, c, d) ==
    IF a > b THEN strs
    ELSE StrsAfter(StrsOfPath(strs, a, c, d), a + 1, b, c, d)

\* line 112: int(len(pathrowvals) / 4)
GroupCount(v) == Len(v) \div 4

\* lines 100-107: paths, rows and pathrowstrs after the features 1..n of the
\* WRS-2 layer
RECURSIVE Wrs2After(_, _)
Wrs2After(w, n) ==
    IF n = 0 THEN [paths |-> <<>>, rows |-> <<>>, strs |-> <<>>]
    ELSE LET r == Wrs2After(w, n - 1)
         IN [paths |-> AppendNew(r.paths, w[n][1]),
             rows |-> AppendNew(r.rows, w[n][2]),
             strs |-> Append(r.strs, FormatPathRow(w[n][1], w[n][2]))]

\* The variables of the later statements that lines 94-554 leave alone.
mainRest == <<pc, layer, layer0, reading, scenelist, updatemissing, badgeom,
              reimport, lastupdate, lastmodifiedDate, window, returned,
              querylist, scenedict, dictchanged, filenum, txn>>

\* lines 94-108: the path/row combinations of the WRS-2 layer; the loop leaves
\* the global feature bound to the last feature of that layer
PathrowsWRS2 ==
    /\ spc = "pathrows"
    /\ useWRS2
    /\ LET r == Wrs2After(wrs2, Len(wrs2))
       IN /\ paths' = r.paths
          /\ rows' = r.rows
          /\ pathrowstrs' = r.strs
    /\ feature' = IF Len(wrs2) > 0 THEN [kind |-> "wrs2", fid |-> Len(wrs2)]
                  ELSE feature
    /\ events' = Append(events, "wrs2")
    /\ layerref' = "wrs2"
    /\ spc' = "mbr"
    /\ UNCHANGED <<useWRS2, wrs2, pathrowvals, gi, MBR, cargs, migrated>>
    /\ UNCHANGED <<mainRest, logVars>>

\* lines 113-120: one group of four values of pathrowvals
PathrowsGroup ==
    /\ spc = "pathrows"
    /\ ~useWRS2
    /\ gi < GroupCount(pathrowvals)
    /\ LET a == pathrowvals[gi * 4 + 1]
           b == pathrowvals[gi * 4 + 2]
           c == pathrowvals[gi * 4 + 3]
           d == pathrowvals[gi * 4 + 4]
       IN /\ paths' = AddRange(paths, a, b)
          /\ rows' = RowsAfter(rows, a, b, c, d)
          /\ pathrowstrs' = StrsAfter(pathrowstrs, a, b, c, d)
    /\ gi' = gi + 1
    /\ UNCHANGED <<spc, useWRS2, wrs2, pathrowvals, MBR, events, feature, cargs,
                   layerref, migrated>>
    /\ UNCHANGED <<mainRest, logVars>>

\* the end of the loop of line 113
PathrowsEnd ==
    /\ spc = "pathrows"
    /\ ~useWRS2
    /\ gi >= GroupCount(pathrowvals)
    /\ spc' = "mbr"
    /\ UNCHANGED <<useWRS2, wrs2, pathrowvals, gi, paths, rows, MBR, events,
                   feature, pathrowstrs, cargs, layerref, migrated>>
    /\ UNCHANGED <<mainRest, logVars>>

\* line 547: whether args.MBR is a string that is not empty
MbrGiven(m) == m[1] = "str" /\ m[2] # <<"">>

\* The test of line 549 passing every list of at least four coordinates.
MbrBad_FewerThanFour(parts) == Len(parts) < 4

\* line 549
MbrBad(parts) == Len(parts) # 4

\* lines 547-552: --MBR is given; split(','), the test of the number of
\* coordinates, the log entry and sys.exit()
MbrCheck ==
    /\ spc = "mbr"
    /\ MbrGiven(MBR)
    /\ MBR' = <<"list", MBR[2]>>
    /\ IF MbrBad(MBR[2])
         THEN /\ errlog' = errlog \cup
                    {<<"--MBR", "Total number of coordinates does not equal four.">>}
              /\ spc' = "exited"
         ELSE /\ spc' = "open"
              /\ UNCHANGED errlog
    /\ UNCHANGED <<useWRS2, wrs2, pathrowvals, gi, paths, rows, events, feature,
                   pathrowstrs, errorsfound, cargs, layerref, migrated>>
    /\ UNCHANGED mainRest

\* lines 553-554, 134-148: getMBR(); min(paths) raises ValueError when no path
\* was enumerated, otherwise four grid2ll requests are sent
MbrDefault ==
    /\ spc = "mbr"
    /\ ~MbrGiven(MBR)
    /\ IF paths = <<>>
         THEN /\ spc' = "crashed"
              /\ UNCHANGED <<MBR, events>>
         ELSE /\ MBR' = <<"getMBR">>
              /\ events' = events \o <<"grid2ll", "grid2ll", "grid2ll", "grid2ll">>
              /\ spc' = "open"
    /\ UNCHANGED <<useWRS2, wrs2, pathrowvals, gi, paths, rows, feature,
                   pathrowstrs, cargs, layerref, migrated>>
    /\ UNCHANGED <<mainRest, logVars>>

\* lines 682-712: the catalog geopackage is opened or created; when the
\* layer is not in it, the layer is created with the fields of
\* fieldvaluelist, the global layer names it and args.migrate is set
OpenCatalog ==
    /\ spc = "open"
    /\ IF cargs.layerpresent
         THEN /\ events' = Append(events, "catalog")
              /\ UNCHANGED <<cargs, layerref>>
         ELSE /\ events' = events \o <<"catalog", "CreateLayer">>
              /\ cargs' = [cargs EXCEPT !.migrate = TRUE]
              /\ layerref' = "catalog"
    /\ spc' = "migrate"
    /\ UNCHANGED <<useWRS2, wrs2, pathrowvals, gi, paths, rows, MBR, feature,
                   pathrowstrs, migrated>>
    /\ UNCHANGED <<mainRest, logVars>>

\* lines 714-715: migrate is called with the global layer, which raises
\* NameError when nothing is bound to it; the call itself raises at line 359.
\* Without the call the statements from line 719 on follow.
MigrateCheck ==
    /\ spc = "migrate"
    /\ IF cargs.migrate /\ cargs.shapefile
         THEN /\ spc' = "crashed"
              /\ migrated' = IF layerref = "unbound" THEN migrated
                             ELSE Append(migrated, layerref)
         ELSE /\ spc' = "main"
              /\ UNCHANGED migrated
    /\ UNCHANGED <<useWRS2, wrs2, pathrowvals, gi, paths, rows, MBR, events,
                   feature, pathrowstrs, cargs, layerref>>
    /\ UNCHANGED <<mainRest, logVars>>

InitStart ==
    /\ errorsfound = FALSE
    /\ errlog = {}
    /\ dlurl = NoUrl
    /\ jpgs = {}
    /\ ThumbIdle
    /\ XmlIdle
    /\ TilesIdle
    /\ MainIdle
    /\ ChunkIdle
    /\ WindowIdle
    /\ MigrateIdle
    /\ spc = "pathrows"
    /\ useWRS2 \in BOOLEAN
    /\ wrs2 \in (IF useWRS2 THEN Wrs2Layers ELSE {<<>>})
    /\ pathrowvals \in (IF useWRS2 THEN {<<207, 208, 23, 24>>} ELSE PathRowVals)
    /\ gi = 0
    /\ paths = <<>>
    /\ rows = <<>>
    /\ MBR \in MbrChoices
    /\ events = <<>>
    /\ cargs \in [layerpresent : BOOLEAN, migrate : BOOLEAN, shapefile : BOOLEAN]
    /\ layerref = "unbound"
    /\ migrated = <<>>

NextStart ==
    \/ PathrowsWRS2 /\ UNCHANGED <<thumbVars, xmlVars, tileVars, chunkVars,
                                  windowVars, migrateVars>>
    \/ PathrowsGroup /\ UNCHANGED <<thumbVars, xmlVars, tileVars, chunkVars,
                                   windowVars, migrateVars>>
    \/ PathrowsEnd /\ UNCHANGED <<thumbVars, xmlVars, tileVars, chunkVars,
                                 windowVars, migrateVars>>
    \/ MbrCheck /\ UNCHANGED <<thumbVars, xmlVars, tileVars, chunkVars,
                              windowVars, migrateVars>>
    \/ MbrDefault /\ UNCHANGED <<thumbVars, xmlVars, tileVars, chunkVars,
                                windowVars, migrateVars>>
    \/ OpenCatalog /\ UNCHANGED <<thumbVars, xmlVars, tileVars, chunkVars,
                                 windowVars, migrateVars>>
    \/ MigrateCheck /\ UNCHANGED <<thumbVars, xmlVars, tileVars, chunkVars,
                                  windowVars, migrateVars>>

SpecStart == InitStart /\ [][NextStart]_vars

\* --MBR was given as a string that is not empty and does not have four
\* comma-separated parts.
MbrWrong == MBR[1] \in {"str", "list"} /\ MBR[2] # <<"">> /\ Len(MBR[2]) # 4

Decode3(str, o) == str[o + 1] * 100 + str[o + 2] * 10 + str[o + 3]

\* The combinations <<path, row>> of the complete groups of four values.
Combinations(v) ==
    UNION {{<<j, k>> : j \in v[4 * g + 1]..v[4 * g + 2],
                       k \in v[4 * g + 3]..v[4 * g + 4]} :
           g \in 0..((Len(v) \div 4) - 1)}

NoDuplicates(seq) ==
    \A i, j \in 1..Len(seq) : seq[i] = seq[j] => i = j

\* C18: without WRS-2, once the INI value is enumerated, the path/row strings
\* are strings of six digits, three for the path and three for the row, and
\* they stand for exactly the combinations of the complete groups of four
\* values; paths and rows hold no value twice.
C18_PathRowEnumeration ==
    (~useWRS2 /\ spc \notin {"idle", "pathrows"}) =>
        /\ \A i \in 1..Len(pathrowstrs) : Len(pathrowstrs[i]) = 6
        /\ {<<Decode3(pathrowstrs[i], 0), Decode3(pathrowstrs[i], 3)>> :
               i \in 1..Len(pathrowstrs)} = Combinations(pathrowvals)
        /\ NoDuplicates(paths)
        /\ NoDuplicates(rows)

\* Two groups of four values that share a path/row combination were
\* enumerated.
C18_Witness ==
    /\ ~useWRS2
    /\ spc = "mbr"
    /\ Len(pathrowvals) = 8
    /\ Len(pathrowstrs) > Cardinality(Range(pathrowstrs))
    /\ Len(paths) = 2 /\ Len(rows) = 2

\* The statements of lines 714-715 have run.
MigrateChecked ==
    \/ spc = "main"
    \/ spc = "crashed" /\ "catalog" \in Range(events)

\* C21: a catalog layer that is absent is created and migration is forced; a
\* layer that exists is not created again; migrate is called exactly when
\* (the layer was absent or --migrate is set) and the legacy shapefile
\* exists, and it is called with the catalog layer.
C21_LayerCreationAndMigration ==
    /\ "catalog" \in Range(events) =>
         /\ ("CreateLayer" \in Range(events)) <=> ~cargs.layerpresent
         /\ ~cargs.layerpresent => (cargs.migrate /\ layerref = "catalog")
    /\ cargs.layerpresent => "CreateLayer" \notin Range(events)
    /\ MigrateChecked =>
         /\ (migrated # <<>>) <=>
              ((~cargs.layerpresent \/ cargs.migrate) /\ cargs.shapefile)
         /\ \A i \in 1..Len(migrated) : migrated[i] = "catalog"

(***************************************************************************)
(* scenesearch: the search windows, lines 154-194 and 298.  Dates are day   *)
(* numbers, 1982-07-16 being day 1.                                        *)
(***************************************************************************)

\* The largest number of days from --startdate to --enddate.
MaxSpan == 732

\* line 154: 1982-07-16, the start date of LANDSAT_TM_C1
TmStart == 1

\* line 154: 1999-04-15, the start date of LANDSAT_ETM_C1
EtmStart == 6118

\* line 154: 2013-02-11, the start date of LANDSAT_8_C1
L8Start == 11169

\* line 171: 2013-06-05, the end of the Landsat 5 mission
L5End == 11283

\* line 175: datetime.timedelta(days = 365)
YearDays == 365

\* line 154: datasetNames.keys(), in the order of the dictionary
datasetNames == <<"LANDSAT_8_C1", "LANDSAT_ETM_C1", "LANDSAT_TM_C1">>

\* line 154: datasetNames[datasetName]
SensorStart(ds) ==
    CASE ds = "LANDSAT_8_C1" -> L8Start
      [] ds = "LANDSAT_ETM_C1" -> EtmStart
      [] ds = "LANDSAT_TM_C1" -> TmStart

\* The values of --startdate that are followed.
StartChoices == {-5, 1, 6117, 11000, 11169}

\* lines 159-162: the start date of the search
StartDate(a) ==
    IF a.lastmodifiedDate # 0 /\ ~(a.updatemissing \/ a.badgeom)
      THEN a.lastmodifiedDate
      ELSE a.startdate

\* The start of the first window left at the start date of the search.
ClampStart_None(d, sensorstart) == d

\* lines 167-168
ClampStart(d, sensorstart) == IF d < sensorstart THEN sensorstart ELSE d

\* lines 169-173
ClampEnd(ds, e) == IF ds = "LANDSAT_TM_C1" /\ L5End < e THEN L5End ELSE e

\* lines 157-173: the head of the loop over the datasets
WindowDataset ==
    /\ wpc = "dataset"
    /\ datasetName <= Len(datasetNames)
    /\ datetuple' = ClampStart(StartDate(wargs), SensorStart(datasetNames[datasetName]))
    /\ enddatetuple' = ClampEnd(datasetNames[datasetName], wargs.enddate)
    /\ wpc' = "while"
    /\ UNCHANGED <<wargs, datasetName, searches>>

\* lines 174-194, 298: one search window and the step to the next
WindowSearch ==
    /\ wpc = "while"
    /\ datetuple < enddatetuple
    /\ LET edatetuple == IF datetuple + YearDays > enddatetuple
                           THEN enddatetuple
                           ELSE datetuple + YearDays
       IN /\ searches' = Append(searches,
                            [datasetName |-> datasetNames[datasetName],
                             startDate |-> datetuple, endDate |-> edatetuple])
          /\ datetuple' = edatetuple + 1
    /\ UNCHANGED <<wpc, wargs, datasetName, enddatetuple>>

\* line 174: the end of the while loop, and the next dataset
WindowNext ==
    /\ wpc = "while"
    /\ ~(datetuple < enddatetuple)
    /\ datasetName' = datasetName + 1
    /\ wpc' = "dataset"
    /\ UNCHANGED <<wargs, datetuple, enddatetuple, searches>>

\* line 299
WindowReturn ==
    /\ wpc = "dataset"
    /\ datasetName > Len(datasetNames)
    /\ wpc' = "returned"
    /\ UNCHANGED <<wargs, datasetName, datetuple, enddatetuple, searches>>

InitWindows ==
    /\ errorsfound = FALSE
    /\ errlog = {}
    /\ dlurl = NoUrl
    /\ jpgs = {}
    /\ ThumbIdle
    /\ XmlIdle
    /\ TilesIdle
    /\ MainIdle
    /\ ChunkIdle
    /\ StartIdle
    /\ MigrateIdle
    /\ wpc = "dataset"
    /\ \E sd \in StartChoices, k \in (-1)..MaxSpan, lm \in {0, 3},
          um \in BOOLEAN, bg \in BOOLEAN :
          wargs = [startdate |-> sd, enddate |-> sd + k,
                   lastmodifiedDate |-> IF lm = 0 THEN 0 ELSE sd + lm,
                   updatemissing |-> um, badgeom |-> bg]
    /\ datasetName = 1
    /\ datetuple = 0
    /\ enddatetuple = 0
    /\ searches = <<>>

NextWindows ==
    \/ WindowDataset /\ UNCHANGED <<logVars, thumbVars, xmlVars, tileVars, mainVars,
                                   chunkVars, startVars, migrateVars>>
    \/ WindowSearch /\ UNCHANGED <<logVars, thumbVars, xmlVars, tileVars, mainVars,
                                  chunkVars, startVars, migrateVars>>
    \/ WindowNext /\ UNCHANGED <<logVars, thumbVars, xmlVars, tileVars, mainVars,
                                chunkVars, startVars, migrateVars>>
    \/ WindowReturn /\ UNCHANGED <<logVars, thumbVars, xmlVars, tileVars, mainVars,
                                  chunkVars, startVars, migrateVars>>

SpecWindows == InitWindows /\ [][NextWindows]_vars

\* The positions in searches of the windows of a dataset.
WindowsOf(ds) == {i \in 1..Len(searches) : searches[i].datasetName = ds}

\* The datasets whose loop over the windows has ended.
DatasetsDone == {datasetNames[i] : i \in 1..(IF datasetName > 3 THEN 3 ELSE datasetName - 1)}

\* C16: the windows of a dataset come in increasing date order, span at most
\* 365 days each and share no day; when the loop of a dataset has ended they
\* cover every day from the clamped start date through the clamped end date;
\* and the loop ends for every start and end date.
C16_WindowsCoverRange ==
    /\ \A i \in 1..Len(searches) :
         /\ searches[i].startDate <= searches[i].endDate
         /\ searches[i].endDate - searches[i].startDate <= YearDays
    /\ \A i, j \in 1..Len(searches) :
         (i < j /\ searches[i].datasetName = searches[j].datasetName)
           => searches[i].endDate < searches[j].startDate
    /\ \A ds \in DatasetsDone :
         \A day \in ClampStart(StartDate(wargs), SensorStart(ds))..ClampEnd(ds, wargs.enddate) :
            \E i \in WindowsOf(ds) :
               searches[i].startDate <= day /\ day <= searches[i].endDate
    /\ wpc # "returned" => ENABLED NextWindows

\* C17: no search window of a dataset starts before the start date of the
\* dataset, and no window of LANDSAT_TM_C1 ends after 2013-06-05.
C17_SensorInOrbit ==
    \A i \in 1..Len(searches) :
        /\ searches[i].datasetName = "LANDSAT_8_C1" => searches[i].startDate >= L8Start
        /\ searches[i].datasetName = "LANDSAT_ETM_C1" => searches[i].startDate >= EtmStart
        /\ searches[i].datasetName = "LANDSAT_TM_C1" =>
             /\ searches[i].startDate >= TmStart
             /\ searches[i].endDate <= L5End

\* scenesearch has returned: the start date was before the start of Landsat 8
\* and the end date after the end of Landsat 5, and the windows of
\* LANDSAT_8_C1 start at the first and those of LANDSAT_TM_C1 end at the
\* second.
C17_Witness ==
    /\ wpc = "returned"
    /\ StartDate(wargs) < L8Start
    /\ wargs.enddate > L5End
    /\ \E i \in WindowsOf("LANDSAT_8_C1") : searches[i].startDate = L8Start
    /\ \E i \in WindowsOf("LANDSAT_TM_C1") : searches[i].endDate = L5End

(***************************************************************************)
(* migrate                                                                 *)
(***************************************************************************)

\* The features of the legacy shapefile that are followed: the scene ID and
\* what ieo.checkscenegeometry returns for the feature.
ShapeLayers ==
    {<<>>}
    \cup {<<[sceneID |-> a, reasonable |-> x]>> : a \in Scenes, x \in BOOLEAN}
    \cup {<<[sceneID |-> S1, reasonable |-> x], [sceneID |-> S2, reasonable |-> y]>> :
            x \in BOOLEAN, y \in BOOLEAN}

\* lines 355-359: the call of migrate(layer, shapefilepath, fieldvaluelist,
\* tiledir = ..., verbose = ...).  Line 359 reads the local verbose, which is
\* assigned only by that statement, so it raises UnboundLocalError for every
\* argument, before the shapefile is opened.
MigrateCall ==
    /\ mpc = "idle"
    /\ mpc' = "raised"
    /\ UNCHANGED shplayer

InitMigrate ==
    /\ errorsfound = FALSE
    /\ errlog = {}
    /\ dlurl = NoUrl
    /\ jpgs = {}
    /\ ThumbIdle
    /\ XmlIdle
    /\ TilesIdle
    /\ pc = "idle"
    /\ pathrowstrs = <<>>
    /\ layer \in {l \in InitialLayers : Len(l) <= MaxLoopFeatures}
    /\ layer0 = layer
    /\ reading = 0
    /\ feature = [kind |-> "unbound", fid |-> 0]
    /\ scenelist = <<>>
    /\ updatemissing = <<>>
    /\ badgeom = <<>>
    /\ reimport = <<>>
    /\ lastupdate = 0
    /\ lastmodifiedDate = 0
    /\ window = 0
    /\ returned = {}
    /\ querylist = <<>>
    /\ scenedict = <<>>
    /\ dictchanged = FALSE
    /\ filenum = 1
    /\ txn = FALSE
    /\ ChunkIdle
    /\ WindowIdle
    /\ StartIdle
    /\ mpc = "idle"
    /\ shplayer \in ShapeLayers

NextMigrate ==
    \/ MigrateCall /\ UNCHANGED <<logVars, thumbVars, xmlVars, tileVars, mainVars,
                                 chunkVars, windowVars, startVars>>

SpecMigrate == InitMigrate /\ [][NextMigrate]_vars

\* C13: migrate goes through all shapefile features and returns the layer;
\* each shapefile feature with a reasonable geometry is then in the layer.
C13_MigrateCopies ==
    mpc # "idle" =>
        /\ mpc = "returned"
        /\ \A i \in 1..Len(shplayer) :
             shplayer[i].reasonable => FeaturesOf(layer, shplayer[i].sceneID) # {}

(***************************************************************************)
(* scenesearch: the metadata requests of one window, lines 213-234         *)
(***************************************************************************)

\* The state at line 213 with a querylist of n different scene IDs.
InitChunks ==
    /\ errorsfound = FALSE
    /\ errlog = {}
    /\ dlurl = NoUrl
    /\ jpgs = {}
    /\ ThumbIdle
    /\ XmlIdle
    /\ TilesIdle
    /\ pc = "idle"
    /\ pathrowstrs = <<>>
    /\ layer = <<>>
    /\ layer0 = <<>>
    /\ reading = 0
    /\ feature = [kind |-> "unbound", fid |-> 0]
    /\ scenelist = <<>>
    /\ updatemissing = <<>>
    /\ badgeom = <<>>
    /\ reimport = <<>>
    /\ lastupdate = 0
    /\ lastmodifiedDate = 0
    /\ window = 0
    /\ returned = {}
    /\ \E n \in 0..MaxQuery : querylist = [i \in 1..n |-> i]
    /\ scenedict = <<>>
    /\ dictchanged = FALSE
    /\ filenum = 1
    /\ txn = FALSE
    /\ cpc = "start"
    /\ iteration = 0
    /\ total = 0
    /\ requests = <<>>
    /\ WindowIdle
    /\ StartIdle
    /\ MigrateIdle

NextChunks ==
    \/ ChunkStart /\ UNCHANGED <<logVars, thumbVars, xmlVars, tileVars, mainVars,
                                windowVars, startVars, migrateVars>>
    \/ ChunkRequest /\ UNCHANGED <<logVars, thumbVars, xmlVars, tileVars, mainVars,
                                  windowVars, startVars, migrateVars>>
    \/ ChunkEnd /\ UNCHANGED <<logVars, thumbVars, xmlVars, tileVars, mainVars,
                              windowVars, startVars, migrateVars>>

SpecChunks == InitChunks /\ [][NextChunks]_vars

\* The requests that name the scene ID at position i of querylist.
RequestsOf(i) ==
    {r \in 1..Len(requests) : querylist[i] \in Range(requests[r])}

\* C11: the metadata query list of a window is sent in consecutive blocks of
\* 100 or fewer scene IDs: no request names more than 100 scene IDs, and when
\* the loop over the blocks has ended every scene ID of the list was named
\* by exactly one request, for every length of the list.
C11_EverySceneQueried ==
    /\ \A r \in 1..Len(requests) : Len(requests[r]) <= BlockSize
    /\ cpc = "done" =>
         \A i \in 1..Len(querylist) : Cardinality(RequestsOf(i)) = 1

====
